---- MODULE Spec2Model ----
(***************************************************************************)
(* The ProfilerMarker derive macro (macros/src/lib.rs) and the runtime     *)
(* surface its output targets (src/lib.rs).                                *)
(*                                                                         *)
(* A record definition is a struct with named fields.  An attribute is     *)
(* [style, path, args]: `path` is the attribute's path as a sequence of    *)
(* segments and `args` the comma separated paths between its parentheses   *)
(* (what parse_nested_meta hands to its callback one at a time).  An       *)
(* Option<T> is a sequence of length 0 (None) or 1 (Some).  Generated      *)
(* token streams are sequences of statements/items, each a record.         *)
(***************************************************************************)
EXTENDS Naturals, Sequences, FiniteSets, TLC

VARIABLES input, pc, total_impl, schema, streamed, json_writer

vars == <<input, pc, total_impl, schema, streamed, json_writer>>

\* ------------------------------------------------------------- bounds
\* at most this many named fields in a record definition
MaxFields == 2
\* at most this many field-level attributes in a record definition (all fields together)
MaxAttrs == 2

\* ------------------------------------------------------------- vocabulary
LOCATIONS ==
    << "MarkerChart", "MarkerTable", "TimelineOverview", "TimelineMemory",
       "TimelineIPC", "TimelineFileIO", "StackChart" >>

FORMATS ==
    << "Url", "FilePath", "SanitizedString", "String", "UniqueString",
       "Duration", "Time", "Seconds", "Milliseconds", "Microseconds",
       "Nanoseconds", "Bytes", "Percentage", "Integer", "Decimal" >>

\* a bug: every identifier is taken for a location
is_valid_marker_location_any(ident) == TRUE

is_valid_marker_location(ident) ==
    \E e \in DOMAIN LOCATIONS : LOCATIONS[e] = ident

\* a bug: every identifier is taken for a format
is_valid_format_string_any(ident) == TRUE

is_valid_format_string(ident) ==
    \E e \in DOMAIN FORMATS : FORMATS[e] = ident

\* ------------------------------------------------------------- syn / quote
None == <<>>
Some(x) == <<x>>

\* syn::Path::get_ident: Some(the segment) of a one-segment path
get_ident(path) == IF Len(path) = 1 THEN Some(path[1]) ELSE None

\* syn::Path::is_ident
is_ident(path, name) == get_ident(path) = Some(name)

\* meta.error(msg): pinned to the argument `arg` of attribute `attr`;
\* Error::new(attr.span(), msg): pinned to the whole attribute (arg = 0).
\* field = 0 for a type-level attribute.
NewError(msg, field, attr, arg) ==
    [msg |-> msg, field |-> field, attr |-> attr, arg |-> arg]

\* Error::into_compile_error
compile_error(e) == [op |-> "compile_error", error |-> e]

UnsupportedLocation == "Unsupported marker display location"
ExpectedLocation == "Expected a marker display location as argument to 'marker_display'"
TooManyFormat == "Too many format arguments"
UnsupportedFormat == "Unsupported format specifier"
ExpectedFormat == "Expected a marker format specifier as argument to 'format'"

\* ------------------------------------------------------------- step 2: type attributes
\* attr.parse_nested_meta(|meta| ...) of a marker_display attribute:
\* the callback runs on each argument in turn, the first Err ends the parse.
RECURSIVE parse_marker_display(_, _, _, _)
parse_marker_display(args, a, j, marker_locations) ==
    IF j > Len(args)
    THEN [err |-> None, marker_locations |-> marker_locations]
    ELSE LET i == get_ident(args[j]) IN
         IF i # None
         THEN IF is_valid_marker_location(i[1])
              THEN parse_marker_display(args, a, j + 1, Append(marker_locations, i[1]))
              ELSE [err |-> Some(NewError(UnsupportedLocation, 0, a, j)),
                    marker_locations |-> marker_locations]
         ELSE [err |-> Some(NewError(ExpectedLocation, 0, a, j)),
               marker_locations |-> marker_locations]

\* for attr in input.attrs { ... }: returns at the first attribute whose parse fails
RECURSIVE scan_type_attrs(_, _, _)
scan_type_attrs(attrs, a, marker_locations) ==
    IF a > Len(attrs)
    THEN [err |-> None, marker_locations |-> marker_locations]
    ELSE IF attrs[a].style = "Inner"
    THEN scan_type_attrs(attrs, a + 1, marker_locations)
    ELSE IF is_ident(attrs[a].path, "marker_display")
    THEN LET r == parse_marker_display(attrs[a].args, a, 1, marker_locations) IN
         IF r.err # None
         THEN r
         ELSE scan_type_attrs(attrs, a + 1, r.marker_locations)
    ELSE scan_type_attrs(attrs, a + 1, marker_locations)

\* ------------------------------------------------------------- marker_type_name
marker_type_name_impl(name) ==
    [op |-> "fn", name |-> "marker_type_name", body |-> << [op |-> "lit", value |-> name] >>]

\* ------------------------------------------------------------- marker_type_display
\* attr.parse_nested_meta(|meta| ...) of a format attribute: each valid identifier
\* overwrites `format`, the first Err ends the parse.
RECURSIVE parse_format(_, _, _, _, _)
parse_format(args, f, a, j, format) ==
    IF j > Len(args)
    THEN [err |-> None, format |-> format]
    ELSE LET i == get_ident(args[j]) IN
         IF i # None
         THEN IF is_valid_format_string(i[1])
              THEN parse_format(args, f, a, j + 1, Some(i[1]))
              ELSE [err |-> Some(NewError(UnsupportedFormat, f, a, j)), format |-> format]
         ELSE [err |-> Some(NewError(ExpectedFormat, f, a, j)), format |-> format]

\* a bug: the searchable flag is dropped
field_row_never_searchable(fname_str, format, searchable) ==
    [op |-> "add_key_label_format", key |-> fname_str, label |-> fname_str,
     format |-> <<"Format", IF format # None THEN format[1] ELSE "String">>]

\* the tail of the per-field closure: the row-append statement of one field
field_row(fname_str, format, searchable) ==
    LET fstring == IF format # None THEN <<"Format", format[1]>> ELSE <<"Format", "String">>
    IN  IF searchable
        THEN [op |-> "add_key_label_format_searchable", key |-> fname_str,
              label |-> fname_str, format |-> fstring,
              searchable |-> <<"Searchable", "Searchable">>]
        ELSE [op |-> "add_key_label_format", key |-> fname_str,
              label |-> fname_str, format |-> fstring]

\* a bug: an attribute that is neither searchable nor format is rejected
RECURSIVE scan_field_attrs_strict(_, _, _, _, _)
scan_field_attrs_strict(field, f, a, format, searchable) ==
    LET attrs == field.attrs IN
    IF a > Len(attrs)
    THEN field_row(field.ident, format, searchable)
    ELSE IF attrs[a].style = "Inner"
    THEN scan_field_attrs_strict(field, f, a + 1, format, searchable)
    ELSE IF is_ident(attrs[a].path, "searchable")
    THEN scan_field_attrs_strict(field, f, a + 1, format, TRUE)
    ELSE IF is_ident(attrs[a].path, "format")
    THEN IF format # None
         THEN compile_error(NewError(TooManyFormat, f, a, 0))
         ELSE LET r == parse_format(attrs[a].args, f, a, 1, format) IN
              IF r.err # None
              THEN compile_error(r.err[1])
              ELSE scan_field_attrs_strict(field, f, a + 1, r.format, searchable)
    ELSE compile_error(NewError("Unsupported attribute", f, a, 0))

\* for attr in attrs { ... } of the per-field closure, then the row.  A `return`
\* here leaves the closure only: the field's tokens are then the compile error.
RECURSIVE scan_field_attrs(_, _, _, _, _)
scan_field_attrs(field, f, a, format, searchable) ==
    LET attrs == field.attrs IN
    IF a > Len(attrs)
    THEN field_row(field.ident, format, searchable)
    ELSE IF attrs[a].style = "Inner"
    THEN scan_field_attrs(field, f, a + 1, format, searchable)
    ELSE IF is_ident(attrs[a].path, "searchable")
    THEN scan_field_attrs(field, f, a + 1, format, TRUE)
    ELSE IF is_ident(attrs[a].path, "format")
    THEN IF format # None
         THEN compile_error(NewError(TooManyFormat, f, a, 0))
         ELSE LET r == parse_format(attrs[a].args, f, a, 1, format) IN
              IF r.err # None
              THEN compile_error(r.err[1])
              ELSE scan_field_attrs(field, f, a + 1, r.format, searchable)
    ELSE scan_field_attrs(field, f, a + 1, format, searchable)

\* the closure of fields.named.iter().map(|f| ...)
display_field(fields, f) == scan_field_attrs(fields[f], f, 1, None, FALSE)

\* a bug: fields that carry no attribute are skipped
RECURSIVE displays_annotated_only(_)
displays_annotated_only(fields) ==
    IF fields = <<>> THEN <<>>
    ELSE LET n == Len(fields) IN
         displays_annotated_only(SubSeq(fields, 1, n - 1))
           \o (IF fields[n].attrs = <<>> THEN <<>> ELSE <<display_field(fields, n)>>)

\* fields.named.iter().map(...): one token stream per field, in declaration order
displays(fields) == [f \in 1..Len(fields) |-> display_field(fields, f)]

\* a bug: the requested locations are passed through to the schema
schema_locations_requested(marker_locations) == marker_locations

\* the argument of MarkerSchema::new in the generated marker_type_display
schema_locations(marker_locations) == << "MarkerChart" >>

marker_type_display_impl(name, marker_locations, fields) ==
    [op |-> "fn", name |-> "marker_type_display",
     body |-> << [op |-> "new", locations |-> schema_locations(marker_locations)],
                 [op |-> "set_chart_label", label |-> "Name: {marker.name}"] >>
              \o displays(fields)
              \o << [op |-> "schema"] >>]

\* ------------------------------------------------------------- stream_json_marker_data
stream_json_marker_data_impl ==
    [op |-> "fn", name |-> "stream_json_marker_data", body |-> <<>>]

\* ------------------------------------------------------------- the derive
derive_profiler_marker(in) ==
    LET r == scan_type_attrs(in.attrs, 1, <<>>) IN
    IF r.err # None
    THEN << compile_error(r.err[1]) >>
    ELSE << marker_type_name_impl(in.ident),
            marker_type_display_impl(in.ident, r.marker_locations, in.fields),
            stream_json_marker_data_impl >>

\* ------------------------------------------------------------- reading the output
\* the items of the output that are routines of the given name
Routines(out, name) ==
    {k \in DOMAIN out : out[k].op = "fn" /\ out[k].name = name}

HasRoutine(out, name) == Routines(out, name) # {}

\* the body of the routine of that name (the output holds at most one)
BodyOf(out, name) == out[CHOOSE k \in Routines(out, name) : TRUE].body

\* the diagnostics of the output, in output order: top-level ones, then those in bodies
RECURSIVE ErrorsIn(_)
ErrorsIn(stmts) ==
    IF stmts = <<>> THEN <<>>
    ELSE LET s == Head(stmts) IN
         (IF s.op = "compile_error" THEN << s.error >>
          ELSE IF s.op = "fn" THEN ErrorsIn(s.body)
          ELSE <<>>) \o ErrorsIn(Tail(stmts))

IsRow(s) == s.op \in {"add_key_label_format", "add_key_label_format_searchable"}

\* the row-append statements of a body, in order
Rows(body) == SelectSeq(body, IsRow)

\* rustc accepts the output when it holds no compile_error! invocation
Compiles(out) == ErrorsIn(out) = <<>>

\* ------------------------------------------------------------- inputs
Attr(path, args) == [style |-> "Outer", path |-> path, args |-> args]

LocationPaths == { <<"MarkerChart">>, <<"TimelineIPC">>, <<"markerchart">>, <<"a", "b">> }

LocationArgLists ==
    {<<>>} \cup {<<p>> : p \in LocationPaths}
           \cup {<<p, q>> : p \in LocationPaths, q \in LocationPaths}

TypeAttrLists ==
    {<<>>, << Attr(<<"serde">>, <<>>) >>}
      \cup { << Attr(<<"marker_display">>, args) >> : args \in LocationArgLists }
      \cup { << Attr(<<"serde">>, <<>>), Attr(<<"marker_display">>, <<p>>) >> : p \in LocationPaths }
      \cup { << Attr(<<"marker_display">>, <<p>>), Attr(<<"marker_display">>, <<q>>) >> :
                p \in LocationPaths, q \in LocationPaths }

FormatArgLists ==
    { <<>>, << <<"Integer">> >>, << <<"Url">> >>, << <<"integer">> >>, << <<"a", "b">> >>,
      << <<"Integer">>, <<"Url">> >> }

FieldAttrs ==
    { Attr(<<"searchable">>, <<>>), Attr(<<"doc">>, <<>>) }
      \cup { Attr(<<"format">>, args) : args \in FormatArgLists }

FieldNames == << "field1", "field2", "field3", "field4" >>

\* the attribute lists of at most n attributes
RECURSIVE AttrLists(_)
AttrLists(n) ==
    IF n = 0 THEN { <<>> }
    ELSE AttrLists(n - 1)
           \cup { Append(l, x) : l \in {m \in AttrLists(n - 1) : Len(m) = n - 1}, x \in FieldAttrs }

\* the lists of fields k..n that carry at most `budget` attributes together
RECURSIVE FieldLists(_, _, _)
FieldLists(k, n, budget) ==
    IF k > n THEN { <<>> }
    ELSE UNION { { << [ident |-> FieldNames[k], attrs |-> al] >> \o rest :
                      rest \in FieldLists(k + 1, n, budget - Len(al)) } :
                 al \in AttrLists(budget) }

Inputs ==
    [ ident : {"ExampleMarker"},
      attrs : TypeAttrLists,
      fields : UNION { FieldLists(1, n, MaxAttrs) : n \in 0..MaxFields } ]

\* ------------------------------------------------------------- the state machine
Init ==
    /\ input \in Inputs
    /\ pc = "parsed"
    /\ total_impl = <<>>
    /\ schema = None
    /\ streamed = FALSE
    /\ json_writer = <<>>

\* the compiler expands #[derive(ProfilerMarker)] on the definition
Derive ==
    /\ pc = "parsed"
    /\ pc' = "derived"
    /\ total_impl' = derive_profiler_marker(input)
    /\ UNCHANGED <<input, schema, streamed, json_writer>>

\* MarkerSchema is a stub: `new` yields pin 42 and every setter and appender
\* returns the schema unchanged
RECURSIVE run_schema_body(_, _)
run_schema_body(body, s) ==
    IF body = <<>> THEN s
    ELSE LET st == Head(body) IN
         run_schema_body(Tail(body),
            IF st.op = "new" THEN Some([pin |-> 42]) ELSE s)

\* the front-end asks the compiled type for its display schema
call_marker_type_display ==
    /\ pc = "derived"
    /\ Compiles(total_impl)
    /\ schema = None
    /\ schema' = run_schema_body(BodyOf(total_impl, "marker_type_display"), None)
    /\ UNCHANGED <<input, pc, total_impl, streamed, json_writer>>

\* the property writes a body performs, in call order
RECURSIVE run_stream_body(_, _)
run_stream_body(body, w) ==
    IF body = <<>> THEN w
    ELSE run_stream_body(Tail(body), Append(w, Head(body).key))

\* a marker instance of the compiled type is streamed to a fresh writer
call_stream_json_marker_data ==
    /\ pc = "derived"
    /\ Compiles(total_impl)
    /\ ~streamed
    /\ streamed' = TRUE
    /\ json_writer' = run_stream_body(BodyOf(total_impl, "stream_json_marker_data"), json_writer)
    /\ UNCHANGED <<input, pc, total_impl, schema>>

Next ==
    \/ Derive
    \/ call_marker_type_display
    \/ call_stream_json_marker_data

Spec == Init /\ [][Next]_vars

\* ------------------------------------------------------------- properties
Derived == pc = "derived"

\* the type-level attributes were accepted: the impl block was generated
Generated == Derived /\ HasRoutine(total_impl, "marker_type_display")

DisplayBody == BodyOf(total_impl, "marker_type_display")

\* the statement generated for field f
DisplayOf(f) == DisplayBody[2 + f]

RowKeys(body) == [i \in 1..Len(Rows(body)) |-> Rows(body)[i].key]

FieldIdents(fields) == [f \in 1..Len(fields) |-> fields[f].ident]

IsAnnotated(field) == field.attrs # <<>>

LocationNames ==
    { "MarkerChart", "MarkerTable", "TimelineOverview", "TimelineMemory",
      "TimelineIPC", "TimelineFileIO", "StackChart" }

FormatNames ==
    { "Url", "FilePath", "SanitizedString", "String", "UniqueString", "Duration",
      "Time", "Seconds", "Milliseconds", "Microseconds", "Nanoseconds", "Bytes",
      "Percentage", "Integer", "Decimal" }

IsFormatAttr(at) == at.path = <<"format">>
IsSearchableAttr(at) == at.path = <<"searchable">>
IsMarkerDisplayAttr(at) == at.path = <<"marker_display">>

\* C1 as stated: after a successful derivation the rows are those of the fields
\* that carry at least one annotation, in declaration order.
C1_Original ==
    (Derived /\ Compiles(total_impl)) =>
        RowKeys(DisplayBody) = FieldIdents(SelectSeq(input.fields, IsAnnotated))

\* C1 (amended): after a successful derivation marker_type_display holds exactly
\* one row-append call per declared field, annotated or not, in declaration order.
C1_OneRowPerField ==
    (Derived /\ Compiles(total_impl)) =>
        RowKeys(DisplayBody) = FieldIdents(input.fields)

C1_Witness ==
    /\ Derived /\ Compiles(total_impl)
    /\ Len(input.fields) = 2
    /\ input.fields[1].attrs = <<>>
    /\ input.fields[2].attrs # <<>>
    /\ RowKeys(DisplayBody) = << "field1", "field2" >>

\* a field whose annotations are all well formed: every format annotation names
\* exactly one identifier of the Format vocabulary, and there is at most one
ValidFieldAttrs(attrs) ==
    /\ \A a \in DOMAIN attrs :
          IsFormatAttr(attrs[a]) =>
             /\ Len(attrs[a].args) = 1
             /\ Len(attrs[a].args[1]) = 1
             /\ attrs[a].args[1][1] \in FormatNames
    /\ Cardinality({a \in DOMAIN attrs : IsFormatAttr(attrs[a])}) <= 1

\* the format such a field declares
DeclaredFormat(attrs) ==
    IF \E a \in DOMAIN attrs : IsFormatAttr(attrs[a])
    THEN attrs[CHOOSE a \in DOMAIN attrs : IsFormatAttr(attrs[a])].args[1][1]
    ELSE "String"

DeclaredSearchable(attrs) == \E a \in DOMAIN attrs : IsSearchableAttr(attrs[a])

\* C2: a field whose annotations are all valid gets the row (name, name, declared
\* format or String), through the four-argument appender with Searchable::Searchable
\* exactly when it carries a searchable annotation, whatever the annotations' order.
C2_RowOfField ==
    Generated =>
        \A f \in DOMAIN input.fields :
            LET field == input.fields[f] IN
            ValidFieldAttrs(field.attrs) =>
                DisplayOf(f) =
                    IF DeclaredSearchable(field.attrs)
                    THEN [op |-> "add_key_label_format_searchable",
                          key |-> field.ident, label |-> field.ident,
                          format |-> <<"Format", DeclaredFormat(field.attrs)>>,
                          searchable |-> <<"Searchable", "Searchable">>]
                    ELSE [op |-> "add_key_label_format",
                          key |-> field.ident, label |-> field.ident,
                          format |-> <<"Format", DeclaredFormat(field.attrs)>>]

C2_Witness ==
    /\ Generated
    /\ Len(input.fields) = 1
    /\ input.fields[1].attrs =
          << Attr(<<"format">>, << <<"Integer">> >>), Attr(<<"searchable">>, <<>>) >>
    /\ DisplayOf(1).op = "add_key_label_format_searchable"
    /\ DisplayOf(1).format = <<"Format", "Integer">>

\* C3 as stated: stream_json_marker_data writes one property per schema row, with
\* the same key, in schema row order.
C3_Original ==
    streamed => json_writer = RowKeys(DisplayBody)

\* the second format annotation of a field: exactly one format annotation precedes it
IsSecondFormat(attrs, b) ==
    /\ IsFormatAttr(attrs[b])
    /\ Cardinality({a \in 1..(b - 1) : IsFormatAttr(attrs[a])}) = 1

\* C4 as stated: a field with two format annotations yields the "Too many format
\* arguments" error, pinned to the second of them.
C4_Original ==
    Generated =>
        \A f \in DOMAIN input.fields :
            \A b \in DOMAIN input.fields[f].attrs :
                IsSecondFormat(input.fields[f].attrs, b) =>
                    DisplayOf(f) = compile_error(NewError(TooManyFormat, f, b, 0))

\* ---- where a scan fails first, read off the definition
\* <<a, j>>: argument j of attribute a; <<a, 0>>: attribute a as a whole
Before(p, q) == p[1] < q[1] \/ (p[1] = q[1] /\ p[2] < q[2])

First(S) == CHOOSE p \in S : \A q \in S : q = p \/ Before(p, q)

IsLocationArg(arg) == Len(arg) = 1 /\ arg[1] \in LocationNames
IsFormatArg(arg) == Len(arg) = 1 /\ arg[1] \in FormatNames

\* the arguments of marker_display annotations that are no valid location
TypeFailures(attrs) ==
    { p \in UNION { {<<a, j>> : j \in DOMAIN attrs[a].args} : a \in DOMAIN attrs } :
        IsMarkerDisplayAttr(attrs[p[1]]) /\ ~IsLocationArg(attrs[p[1]].args[p[2]]) }

TypeFailureMsg(attrs, p) ==
    IF Len(attrs[p[1]].args[p[2]]) = 1 THEN UnsupportedLocation ELSE ExpectedLocation

\* the arguments of a field's format annotations that are no valid format, and the
\* format annotations that follow a format annotation with arguments
FieldFailures(attrs) ==
    { p \in UNION { {<<a, j>> : j \in DOMAIN attrs[a].args} : a \in DOMAIN attrs } :
        IsFormatAttr(attrs[p[1]]) /\ ~IsFormatArg(attrs[p[1]].args[p[2]]) }
    \cup
    { <<b, 0>> : b \in { c \in DOMAIN attrs :
        /\ IsFormatAttr(attrs[c])
        /\ \E a \in 1..(c - 1) : IsFormatAttr(attrs[a]) /\ attrs[a].args # <<>> } }

FieldFailureMsg(attrs, p) ==
    IF p[2] = 0 THEN TooManyFormat
    ELSE IF Len(attrs[p[1]].args[p[2]]) = 1 THEN UnsupportedFormat ELSE ExpectedFormat

\* an identifier argument outside the vocabulary
IsUnknownIdent(arg, names) == Len(arg) = 1 /\ arg[1] \notin names

\* C5 as stated: a marker_display annotation that names an identifier outside the
\* Location vocabulary makes the output the "Unsupported marker display location"
\* error alone.
C5_Original ==
    Derived =>
        \A a \in DOMAIN input.attrs :
            (/\ IsMarkerDisplayAttr(input.attrs[a])
             /\ \E j \in DOMAIN input.attrs[a].args :
                   IsUnknownIdent(input.attrs[a].args[j], LocationNames))
            => /\ Len(total_impl) = 1
               /\ total_impl[1].op = "compile_error"
               /\ total_impl[1].error.msg = UnsupportedLocation

\* C5 (amended): such a definition yields one error and none of the three routines,
\* whatever the fields; the error is that of the first marker_display argument, in
\* annotation order, that is no valid location: "Unsupported marker display
\* location" when it is an identifier, "Expected a marker display location ..."
\* when it is not, pinned to that argument.
C5_LocationRejected ==
    Derived =>
        \A a \in DOMAIN input.attrs :
            (/\ IsMarkerDisplayAttr(input.attrs[a])
             /\ \E j \in DOMAIN input.attrs[a].args :
                   IsUnknownIdent(input.attrs[a].args[j], LocationNames))
            => LET p == First(TypeFailures(input.attrs)) IN
               total_impl =
                 << compile_error(NewError(TypeFailureMsg(input.attrs, p), 0, p[1], p[2])) >>

C5_Witness ==
    /\ Derived
    /\ input.attrs = << Attr(<<"marker_display">>, << <<"MarkerChart">>, <<"markerchart">> >>) >>
    /\ Len(input.fields) = 2
    /\ input.fields[1].attrs # <<>>
    /\ total_impl = << compile_error(NewError(UnsupportedLocation, 0, 1, 2)) >>

\* C6 as stated: a format annotation that names an identifier outside the Format
\* vocabulary makes the field's output the "Unsupported format specifier" error,
\* and no row carries that identifier as its format.
C6_Original ==
    Generated =>
        \A f \in DOMAIN input.fields :
            \A a \in DOMAIN input.fields[f].attrs :
                LET at == input.fields[f].attrs[a] IN
                \A j \in DOMAIN at.args :
                    (IsFormatAttr(at) /\ IsUnknownIdent(at.args[j], FormatNames))
                    => /\ DisplayOf(f).op = "compile_error"
                       /\ DisplayOf(f).error.msg = UnsupportedFormat
                       /\ \A r \in DOMAIN Rows(DisplayBody) :
                             Rows(DisplayBody)[r].format # <<"Format", at.args[j][1]>>

\* C6 (amended): when the type-level annotations are accepted, such a field yields
\* one diagnostic and no row (and no row carries the identifier as its format); the
\* diagnostic is that of the field's first failure in annotation order: "Unsupported
\* format specifier" pinned to the identifier when nothing fails before it, otherwise
\* the earlier "Too many format arguments", "Expected a marker format specifier ..."
\* or "Unsupported format specifier".
C6_FormatRejected ==
    Generated =>
        \A f \in DOMAIN input.fields :
            \A a \in DOMAIN input.fields[f].attrs :
                LET attrs == input.fields[f].attrs
                    at == attrs[a]
                IN
                \A j \in DOMAIN at.args :
                    (IsFormatAttr(at) /\ IsUnknownIdent(at.args[j], FormatNames))
                    => LET p == First(FieldFailures(attrs)) IN
                       /\ DisplayOf(f) =
                            compile_error(NewError(FieldFailureMsg(attrs, p), f, p[1], p[2]))
                       /\ (p = <<a, j>> => DisplayOf(f).error.msg = UnsupportedFormat)
                       /\ \A r \in DOMAIN Rows(DisplayBody) :
                             /\ Rows(DisplayBody)[r].format # <<"Format", at.args[j][1]>>
                             /\ Rows(DisplayBody)[r].key # input.fields[f].ident

C6_Witness ==
    /\ Generated
    /\ Len(input.fields) = 2
    /\ input.fields[1].attrs = << Attr(<<"format">>, << <<"integer">> >>) >>
    /\ DisplayOf(1) = compile_error(NewError(UnsupportedFormat, 1, 1, 1))
    /\ RowKeys(DisplayBody) = << "field2" >>

AllThree(out) ==
    /\ HasRoutine(out, "marker_type_name")
    /\ HasRoutine(out, "marker_type_display")
    /\ HasRoutine(out, "stream_json_marker_data")

NoneOfThree(out) ==
    /\ ~HasRoutine(out, "marker_type_name")
    /\ ~HasRoutine(out, "marker_type_display")
    /\ ~HasRoutine(out, "stream_json_marker_data")

\* C7 as stated: the output holds the three routines and no error, or an error and
\* none of the three routines.
C7_Original ==
    Derived =>
        \/ AllThree(total_impl) /\ ErrorsIn(total_impl) = <<>>
        \/ NoneOfThree(total_impl) /\ ErrorsIn(total_impl) # <<>>

\* C8: whatever valid locations marker_display requests, the generated
\* marker_type_display opens with MarkerSchema::new(&[Location::MarkerChart]) and
\* set_chart_label("Name: {marker.name}"), every row comes after them, and the
\* output is the one generated without any type-level annotation.
C8_SchemaHeader ==
    Generated =>
        /\ DisplayBody[1] = [op |-> "new", locations |-> << "MarkerChart" >>]
        /\ DisplayBody[2] = [op |-> "set_chart_label", label |-> "Name: {marker.name}"]
        /\ \A k \in DOMAIN DisplayBody : IsRow(DisplayBody[k]) => k > 2
        /\ total_impl = derive_profiler_marker([input EXCEPT !.attrs = <<>>])

C8_Witness ==
    /\ Generated /\ Compiles(total_impl)
    /\ input.attrs = << Attr(<<"marker_display">>, << <<"TimelineIPC">>, <<"MarkerChart">> >>) >>
    /\ Len(Rows(DisplayBody)) = 2
    /\ DisplayBody[1].locations = << "MarkerChart" >>

\* the field's annotations hold an error of their own
FieldHasError(field) == FieldFailures(field.attrs) # {}

\* C9 as stated: with annotation errors on several fields, derivation stops at the
\* first field in error and the output carries that one diagnostic.
C9_Original ==
    (/\ Generated
     /\ Cardinality({f \in DOMAIN input.fields : FieldHasError(input.fields[f])}) >= 2)
    => Len(ErrorsIn(total_impl)) = 1

\* C10 as stated: a format annotation that does not carry exactly one identifier
\* is rejected at build time.
C10_Original ==
    (/\ Derived
     /\ \E f \in DOMAIN input.fields : \E a \in DOMAIN input.fields[f].attrs :
           /\ IsFormatAttr(input.fields[f].attrs[a])
           /\ Len(input.fields[f].attrs[a].args) # 1)
    => ~Compiles(total_impl)

\* an annotation the field scan acts on
IsRecognizedAttr(at) == IsSearchableAttr(at) \/ IsFormatAttr(at)

\* the field without its annotations that are neither searchable nor format
StripField(field) == [field EXCEPT !.attrs = SelectSeq(field.attrs, IsRecognizedAttr)]

StripFields(fields) == [f \in DOMAIN fields |-> StripField(fields[f])]

\* the place in attrs of the k-th searchable or format annotation
KeptIndex(attrs, k) ==
    CHOOSE i \in DOMAIN attrs :
        /\ IsRecognizedAttr(attrs[i])
        /\ Cardinality({j \in 1..i : IsRecognizedAttr(attrs[j])}) = k

\* a statement generated for the stripped field, its diagnostic (if it is one)
\* pinned to the same annotation of the field as declared
Repinned(stmt, attrs) ==
    IF stmt.op = "compile_error"
    THEN compile_error([stmt.error EXCEPT !.attr = KeptIndex(attrs, stmt.error.attr)])
    ELSE stmt

\* C11: annotations that are neither searchable nor format never change the
\* result: the output for a definition is the output for the same definition with
\* those annotations removed from every field (same rows, same diagnostics with
\* the same message pinned to the same annotation and argument), so they never
\* cause an error.
C11_OtherAttrsIgnored ==
    Derived =>
        LET stripped == [input EXCEPT !.fields = StripFields(input.fields)] IN
        IF Generated
        THEN /\ \A f \in DOMAIN input.fields :
                   DisplayOf(f) =
                      Repinned(display_field(stripped.fields, f), input.fields[f].attrs)
             /\ Len(DisplayBody) = Len(input.fields) + 3
             /\ Len(Rows(DisplayBody)) =
                   Len(Rows(BodyOf(derive_profiler_marker(stripped), "marker_type_display")))
        ELSE total_impl = derive_profiler_marker(stripped)

C11_Witness ==
    /\ Generated
    /\ Len(input.fields) = 2
    /\ input.fields[1].attrs =
          << Attr(<<"doc">>, <<>>), Attr(<<"format">>, << <<"integer">> >>) >>
    /\ DisplayOf(1) = compile_error(NewError(UnsupportedFormat, 1, 2, 1))
    /\ DisplayOf(2) = field_row("field2", None, FALSE)

====
